---------------------------- MODULE Spec2Model ----------------------------
(***************************************************************************)
(* The Zh Scopus dashboard (src/app_dash.py): the spreadsheet loader, the  *)
(* filter/sort pipeline apply_filters, the two Dash callbacks render_tabs  *)
(* and export_data, and the widgets whose values they read.                *)
(*                                                                         *)
(* Text is a sequence of one-character strings, so that lower-casing,      *)
(* splitting on ";", trimming, substring search and the ";" -> newline     *)
(* replacement are computed and not assumed.  A table (DataFrame) is a     *)
(* sequence of rows; a row is a record of cells; a cell that pandas holds  *)
(* as NaN / <NA> / None has na = TRUE.  Numbers read from the sheet are    *)
(* kept in tenths, so that a fractional cell (2.5 is 25) can be told from  *)
(* a whole one.                                                            *)
(***************************************************************************)
EXTENDS Integers, Sequences, FiniteSets, TLC

\* ------------------------------------------------------------------ bounds

\* Most rows of a spreadsheet.
MaxRows == 2

\* Most widget edits of one browser session.
MaxEdits == 1

\* ------------------------------------------------------------------- cells

NaN == [na |-> TRUE, v |-> <<>>]

Text(s) == [na |-> FALSE, v |-> s]

NA == [na |-> TRUE, v |-> 0]

Num(n) == [na |-> FALSE, v |-> n]

\* A list given by its elements, built once.
List(f) == f \o <<>>

\* ------------------------------------------------------------------ text

\* str.lower() on the characters the model uses.
Lower(c) ==
    CASE c = "A" -> "a"
      [] c = "B" -> "b"
      [] c = "Q" -> "q"
      [] c = "S" -> "s"
      [] c = "T" -> "t"
      [] c = "V" -> "v"
      [] OTHER -> c

lower(s) == List([i \in 1..Len(s) |-> Lower(s[i])])

\* The code point of a character: Python compares str by code points.
ord(c) ==
    CASE c = "\n" -> 10
      [] c = " " -> 32
      [] c = "." -> 46
      [] c = "/" -> 47
      [] c = "0" -> 48
      [] c = "1" -> 49
      [] c = "2" -> 50
      [] c = "3" -> 51
      [] c = "4" -> 52
      [] c = "5" -> 53
      [] c = "6" -> 54
      [] c = "7" -> 55
      [] c = "8" -> 56
      [] c = "9" -> 57
      [] c = ":" -> 58
      [] c = ";" -> 59
      [] c = "A" -> 65
      [] c = "B" -> 66
      [] c = "Q" -> 81
      [] c = "S" -> 83
      [] c = "T" -> 84
      [] c = "V" -> 86
      [] c = "a" -> 97
      [] c = "b" -> 98
      [] c = "n" -> 110
      [] c = "q" -> 113
      [] c = "s" -> 115
      [] c = "t" -> 116
      [] c = "v" -> 118
      [] c = "x" -> 120
      [] OTHER -> 200

\* s < t for Python str: the first differing character decides, a proper
\* prefix is smaller.
RECURSIVE StrLess(_, _)
StrLess(s, t) ==
    IF t = <<>> THEN FALSE
    ELSE IF s = <<>> THEN TRUE
    ELSE IF ord(Head(s)) # ord(Head(t)) THEN ord(Head(s)) < ord(Head(t))
    ELSE StrLess(Tail(s), Tail(t))

\* sub in x (Python's substring test).
Contains(x, sub) ==
    \E i \in 0..(Len(x) - Len(sub)) : SubSeq(x, i + 1, i + Len(sub)) = sub

IsSpace(c) == c \in {" ", "\n"}

\* str.strip()
RECURSIVE LStrip(_)
LStrip(s) == IF s # <<>> /\ IsSpace(Head(s)) THEN LStrip(Tail(s)) ELSE s

RECURSIVE RStrip(_)
RStrip(s) ==
    IF s # <<>> /\ IsSpace(s[Len(s)]) THEN RStrip(SubSeq(s, 1, Len(s) - 1)) ELSE s

strip(s) == RStrip(LStrip(s))

\* str.replace(";", "\n")
replace_semicolons(s) ==
    List([i \in 1..Len(s) |-> IF s[i] = ";" THEN "\n" ELSE s[i]])

\* str.split(";"): the fragments between the separators, empty ones kept.
RECURSIVE SplitFrom(_, _, _)
SplitFrom(s, i, cur) ==
    IF i > Len(s) THEN <<cur>>
    ELSE IF s[i] = ";" THEN <<cur>> \o SplitFrom(s, i + 1, <<>>)
    ELSE SplitFrom(s, i + 1, Append(cur, s[i]))

split(s) == SplitFrom(s, 1, <<>>)

\* Series.astype(str) on an object column: NaN becomes the text "nan".
astype_str(cell) == IF cell.na THEN <<"n", "a", "n">> ELSE cell.v

\* --------------------------------------------------------------- load_data

IsDigit(c) == c \in {"0", "1", "2", "3", "4", "5", "6", "7", "8", "9"}

RECURSIVE ParseDigits(_, _)
ParseDigits(s, acc) ==
    IF s = <<>> THEN acc ELSE ParseDigits(Tail(s), 10 * acc + (ord(Head(s)) - 48))

\* pd.to_numeric(errors="coerce") of one sheet cell, in tenths: a number
\* stays, a text of digits is parsed, any other text and an empty cell
\* become NaN.
to_numeric(cell) ==
    CASE cell.kind = "num" -> Num(cell.t)
      [] cell.kind = "text" ->
            IF cell.s # <<>> /\ \A i \in 1..Len(cell.s) : IsDigit(cell.s[i])
            THEN Num(10 * ParseDigits(cell.s, 0))
            ELSE NA
      [] OTHER -> NA

\* astype(int) of a float given in tenths: truncation toward zero.
astype_int(t) == IF t < 0 THEN 0 - ((0 - t) \div 10) ELSE t \div 10

\* df["year"] = to_numeric(...).astype("Int64"): NaN stays <NA>.  The year
\* cells of the model are whole numbers (astype("Int64") raises on a
\* fractional one, so no running program holds one).
load_year(cell) ==
    LET n == to_numeric(cell) IN IF n.na THEN NA ELSE Num(astype_int(n.v))

\* df["cited_by"] = to_numeric(...).fillna(0).astype(int)
load_cited_by(cell) ==
    LET n == to_numeric(cell) IN IF n.na THEN 0 ELSE astype_int(n.v)

DoiPrefix ==
    <<"h", "t", "t", "p", "s", ":", "/", "/", "d", "o", "i", ".", "o", "r", "g", "/">>

\* f"https://doi.org/{str(x).strip()}" if pd.notna(x) and str(x).strip() else None
load_doi_link(doi) ==
    IF ~doi.na /\ strip(doi.v) # <<>> THEN Text(DoiPrefix \o strip(doi.v)) ELSE NaN

\* One row of the sheet after the renaming, the coercions and the derived
\* columns; idx is the row's index label.
load_row(raw, i) ==
    [idx |-> i - 1,
     authors_raw |-> raw.authors_raw,
     title |-> raw.title,
     year |-> load_year(raw.year),
     source |-> raw.source,
     cited_by |-> load_cited_by(raw.cited_by),
     doi |-> raw.doi,
     url |-> raw.url,
     issn |-> raw.issn,
     quartile |-> raw.quartile,
     percentile_2024 |-> to_numeric(raw.percentile_2024),
     doi_link |-> load_doi_link(raw.doi),
     authors_fmt |-> replace_semicolons(astype_str(raw.authors_raw)),
     title_lc |-> lower(astype_str(raw.title)),
     source_lc |-> lower(astype_str(raw.source)),
     authors_raw_lc |-> lower(astype_str(raw.authors_raw))]

load_data(rows) == List([i \in 1..Len(rows) |-> load_row(rows[i], i)])


\* ------------------------------------------------------------------ state

VARIABLES
    sheet,          \* the spreadsheet's rows as read_excel returns them
    df,             \* the global table load_data built from it
    argsort_ties,   \* what this build's quicksort does with equal keys
    ui,             \* the widgets' current values (the callbacks' State)
    tab_content,    \* Output("tab_content", "children") of render_tabs
    filtered,       \* the frame render_tabs last got from apply_filters
    download,       \* Output("download-dataframe", "data") of export_data
    event,          \* the browser event handled last
    edits,          \* widget edits so far
    call            \* a direct call of apply_filters: arguments and results

vars ==
    <<sheet, df, argsort_ties, ui, tab_content, filtered, download, event, edits, call>>

\* ---------------------------------------------------------- apply_filters

\* DataFrame[mask]: the rows whose mask is True, in the frame's order.
Rows(frame, mask) ==
    LET kept[i \in 0..Len(frame)] ==
            IF i = 0 THEN <<>>
            ELSE IF mask[i] THEN Append(kept[i - 1], frame[i]) ELSE kept[i - 1]
    IN kept[Len(frame)]

\* Series.max() of the year column, skipping <NA>.
year_max(frame) ==
    LET ys == {frame[i].year.v : i \in {j \in 1..Len(frame) : ~frame[j].year.na}}
    IN CHOOSE y \in ys : \A z \in ys : z <= y

\* max_year = df_in["year"].max() if not df_in["year"].isna().all() else year_range[1]
max_year(df_in, year_range) ==
    IF \A i \in 1..Len(df_in) : df_in[i].year.na THEN year_range[2] ELSE year_max(df_in)

\* fillna(0) of a nullable integer cell
fillna(cell, d) == IF cell.na THEN d ELSE cell.v

\* The year step: a preset keeps the years from max_year - 4 (or - 9) on,
\* a missing year counting as 0; otherwise the slider's range, which a
\* missing year is never between.
year_step(df_f, df_in, c) ==
    LET my == max_year(df_in, c.year_range) IN
    IF c.year_preset = "last5"
    THEN Rows(df_f, [i \in 1..Len(df_f) |-> fillna(df_f[i].year, 0) >= my - 4])
    ELSE IF c.year_preset = "last10"
    THEN Rows(df_f, [i \in 1..Len(df_f) |-> fillna(df_f[i].year, 0) >= my - 9])
    ELSE IF c.year_range # <<>>
    THEN Rows(df_f, [i \in 1..Len(df_f) |->
                        /\ ~df_f[i].year.na
                        /\ c.year_range[1] <= df_f[i].year.v
                        /\ df_f[i].year.v <= c.year_range[2]])
    ELSE df_f

\* if quartiles: keep quartile.astype(str).isin(quartiles)
quartile_step(df_f, c) ==
    IF c.quartiles # {}
    THEN Rows(df_f, [i \in 1..Len(df_f) |-> astype_str(df_f[i].quartile) \in c.quartiles])
    ELSE df_f

\* This mutant is a percentile step that fills a missing percentile with 0
\* instead of -1, so that the default range [0, 100] keeps it.
percentile_step_fill_zero(df_f, c) ==
    IF c.percentile_range # <<>>
    THEN LET p == [i \in 1..Len(df_f) |-> fillna(df_f[i].percentile_2024, 0)]
         IN Rows(df_f, [i \in 1..Len(df_f) |->
                           /\ p[i] >= 10 * c.percentile_range[1]
                           /\ p[i] <= 10 * c.percentile_range[2]])
    ELSE df_f

\* if percentile_range: p = fillna(-1); keep lo <= p <= hi (p is in tenths)
percentile_step(df_f, c) ==
    IF c.percentile_range # <<>>
    THEN LET p == [i \in 1..Len(df_f) |-> fillna(df_f[i].percentile_2024, -10)]
         IN Rows(df_f, [i \in 1..Len(df_f) |->
                           /\ p[i] >= 10 * c.percentile_range[1]
                           /\ p[i] <= 10 * c.percentile_range[2]])
    ELSE df_f

\* if sources and len(sources) > 0: keep source.isin(sources)
source_step(df_f, c) ==
    IF c.sources # {}
    THEN Rows(df_f, [i \in 1..Len(df_f) |->
                        ~df_f[i].source.na /\ df_f[i].source.v \in c.sources])
    ELSE df_f

\* if authors and len(authors) > 0: keep any(a.strip() in authors_raw)
author_step(df_f, c) ==
    IF c.authors # {}
    THEN Rows(df_f, [i \in 1..Len(df_f) |->
                        \E a \in c.authors :
                            Contains(astype_str(df_f[i].authors_raw), strip(a))])
    ELSE df_f

\* if search and str(search).strip() != "": q = lower; title | authors | source.
\* str.contains reads q as a regular expression; the search texts of the
\* model have no special character, so it is the substring test.
search_step(df_f, c) ==
    IF ~c.search.na /\ c.search.v # <<>> /\ strip(c.search.v) # <<>>
    THEN LET q == lower(c.search.v)
         IN Rows(df_f, [i \in 1..Len(df_f) |->
                           \/ Contains(df_f[i].title_lc, q)
                           \/ Contains(df_f[i].authors_raw_lc, q)
                           \/ Contains(df_f[i].source_lc, q)])
    ELSE df_f

\* The cell of a row in a column; cited_by, an int column, is never NaN.
cell(row, col) == IF col = "cited_by" THEN Num(row.cited_by) ELSE row[col]

\* A number column as sort keys.
int_keys(frame, col) == List([i \in 1..Len(frame) |-> cell(frame[i], col)])

\* A text column as sort keys: each text's rank among the column's texts
\* (equal texts get equal ranks, a smaller text a smaller rank).
text_keys(frame, col) ==
    List([i \in 1..Len(frame) |->
        IF frame[i][col].na THEN NA
        ELSE Num(Cardinality({frame[j][col].v :
                 j \in {k \in 1..Len(frame) :
                           ~frame[k][col].na /\ StrLess(frame[k][col].v, frame[i][col].v)}}))])

\* Where row i lands (nargsort): the rows with a key first, by key, the
\* rows without one after them in the frame's order.  What happens among
\* equal keys is the sort algorithm's business: ties is "input_order" for
\* a run that keeps them as they came, "reversed" for one that does not.
sort_position(keys, i, ascending, ties) ==
    LET n == Len(keys)
        has == {j \in 1..n : ~keys[j].na}
        first(j) ==
            IF keys[j].v # keys[i].v
            THEN IF ascending THEN keys[j].v < keys[i].v ELSE keys[j].v > keys[i].v
            ELSE IF ties = "input_order" THEN j < i ELSE j > i
    IN IF keys[i].na
       THEN Cardinality(has) + Cardinality({j \in 1..n : keys[j].na /\ j < i}) + 1
       ELSE Cardinality({j \in has : first(j)}) + 1

\* DataFrame.sort_values(by=..., ascending=..., na_position="last") with the
\* default kind="quicksort", for which pandas promises no order among
\* equal keys.
sort_values(frame, keys, ascending) ==
    List([p \in 1..Len(frame) |->
        frame[CHOOSE i \in 1..Len(frame) :
                 sort_position(keys, i, ascending, argsort_ties) = p]])

SortModes ==
    {"year_desc", "year_asc", "cited_desc", "cited_asc", "pct_desc",
     "author_az", "author_za", "source_az", "source_za", "title_az"}

\* by= of each sort mode
sort_column(sort_by) ==
    CASE sort_by \in {"year_desc", "year_asc"} -> "year"
      [] sort_by \in {"cited_desc", "cited_asc"} -> "cited_by"
      [] sort_by = "pct_desc" -> "percentile_2024"
      [] sort_by \in {"author_az", "author_za"} -> "authors_raw"
      [] sort_by \in {"source_az", "source_za"} -> "source"
      [] sort_by = "title_az" -> "title"

\* ascending= of each sort mode
sort_ascending(sort_by) ==
    sort_by \in {"year_asc", "cited_asc", "author_az", "source_az", "title_az"}

sort_keys(frame, col) ==
    IF col \in {"authors_raw", "source", "title"}
    THEN text_keys(frame, col) ELSE int_keys(frame, col)

\* The sort step: one sort_values per mode, none for any other value.
sort_step(df_f, c) ==
    IF c.sort_by \in SortModes
    THEN sort_values(df_f, sort_keys(df_f, sort_column(c.sort_by)),
                     sort_ascending(c.sort_by))
    ELSE df_f

\* apply_filters(df_in, search, year_preset, year_range, sources, authors,
\* quartiles, percentile_range, sort_by); c holds the eight criteria.
apply_filters(df_in, c) ==
    sort_step(
      search_step(
        author_step(
          source_step(
            percentile_step(
              quartile_step(
                year_step(df_in, df_in, c), c), c), c), c), c), c)


\* ------------------------------------------------------------- aggregation

\* sum() of a column
RECURSIVE Sum(_)
Sum(col) == IF col = <<>> THEN 0 ELSE Head(col) + Sum(Tail(col))

\* The texts of a set in ascending order (groupby sorts its group keys).
RECURSIVE SortedTexts(_)
SortedTexts(S) ==
    IF S = {} THEN <<>>
    ELSE LET m == CHOOSE x \in S : \A y \in S \ {x} : StrLess(x, y)
         IN <<m>> \o SortedTexts(S \ {m})

\* groupby(key).agg(pub_count=("title", "count"), cites=("cited_by", "sum")):
\* one group per key value present (rows whose key is NaN are dropped),
\* "count" counting the group's rows whose title is not NaN.
groupby_agg(frame, by) ==
    LET ks == SortedTexts({frame[i][by].v : i \in {j \in 1..Len(frame) : ~frame[j][by].na}})
    IN List([g \in 1..Len(ks) |->
          LET members == Rows(frame, [i \in 1..Len(frame) |->
                                         ~frame[i][by].na /\ frame[i][by].v = ks[g]])
          IN [key |-> ks[g],
              pub_count |-> Len(Rows(members, [i \in 1..Len(members) |->
                                                  ~members[i].title.na])),
              cites |-> Sum([i \in 1..Len(members) |-> members[i].cited_by])]])

\* DataFrame.head(n)
head(frame, n) == SubSeq(frame, 1, IF Len(frame) < n THEN Len(frame) ELSE n)

\* filtered.groupby("source").agg(...).sort_values("pub_count", ascending=False)
top_sources(frame) ==
    LET g == groupby_agg(frame, "source")
    IN sort_values(g, List([i \in 1..Len(g) |-> Num(g[i].pub_count)]), FALSE)

\* assign(_authors=authors_raw.astype(str).str.split(";")).explode("_authors"),
\* then _authors.str.strip(): one row per fragment of each row.
RECURSIVE explode_authors(_)
explode_authors(frame) ==
    IF frame = <<>> THEN <<>>
    ELSE LET r == Head(frame)
             parts == split(astype_str(r.authors_raw))
         IN [k \in 1..Len(parts) |->
                [author |-> Text(strip(parts[k])), title |-> r.title,
                 cited_by |-> r.cited_by]]
            \o explode_authors(Tail(frame))

\* exploded[exploded["_authors"] != ""].groupby("_authors").agg(...)
\*     .sort_values("pub_count", ascending=False)
top_authors(frame) ==
    LET x == explode_authors(frame)
        e == Rows(x, [i \in 1..Len(x) |-> x[i].author.v # <<>>])
        g == groupby_agg(e, "author")
    IN sort_values(g, List([i \in 1..Len(g) |-> Num(g[i].pub_count)]), FALSE)

\* ------------------------------------------------------------ the callbacks

\* The pandas objects a callback holds: a sequence of frames, the global
\* df being object 1.  This mutant makes an operation work in place on the
\* global frame instead of on a new one.
in_place(store, frame) == [store |-> [store EXCEPT ![1] = frame], ref |-> 1]

\* A call that returns a new DataFrame (df_in.copy() and the indexing and
\* sorting after it, reset_index(drop=True).copy()): the result is a new
\* object, the frames it was made from are as they were.
new_frame(store, frame) == [store |-> Append(store, frame), ref |-> Len(store) + 1]

\* reset_index(drop=True): the index labels become 0..n-1.
reset_index(frame) == List([i \in 1..Len(frame) |-> [frame[i] EXCEPT !.idx = i - 1]])

\* insert(0, "No", range(1, len + 1)), in place: the numbering column is field no.
insert_no(frame) == List([i \in 1..Len(frame) |-> ("no" :> i) @@ frame[i]])

\* frame[col] = authors_raw.astype(str).str.replace(";", "\n"), in place.
set_authors(frame, col) ==
    List([i \in 1..Len(frame) |->
        (col :> replace_semicolons(astype_str(frame[i].authors_raw))) @@ frame[i]])

\* The criteria the two callbacks pass to apply_filters, from the widgets.
criteria(w) ==
    [search |-> w.search, year_preset |-> w.preset_years, year_range |-> w.year_range,
     sources |-> w.source_filter, authors |-> w.author_filter,
     quartiles |-> w.quartile_filter, percentile_range |-> w.percentile_range,
     sort_by |-> w.sort_by]

\* Both callbacks, from the frame apply_filters returned (object f.ref):
\* display = filtered.reset_index(drop=True).copy(), then, in place on
\* display, the numbering column and the authors column col.
display_frames(f, col) ==
    LET d == new_frame(f.store, reset_index(f.store[f.ref]))
    IN [store |-> [d.store EXCEPT ![d.ref] = set_authors(insert_no(@), col)],
        filtered |-> f.ref, display |-> d.ref]

\* This mutant is a render_tabs that shows the record store as it is,
\* without filtering or sorting it.
render_frames_unfiltered(df_global, w) ==
    display_frames(new_frame(<<df_global>>, df_global), "authors_fmt")

\* The frames of render_tabs after its first lines: filtered, and
\* filtered_display with its numbering and its authors_fmt column.
render_frames(df_global, w) ==
    display_frames(new_frame(<<df_global>>, apply_filters(df_global, criteria(w))),
                   "authors_fmt")

TableColumns ==
    {"no", "authors_fmt", "title", "year", "source", "quartile", "percentile_2024",
     "cited_by", "doi_link", "url"}

\* The columns of a frame's rows that cols names.
columns(frame, cols) ==
    List([i \in 1..Len(frame) |-> [f \in cols \cap DOMAIN frame[i] |-> frame[i][f]]])

\* One card of the "Scopus" view.
card(row) ==
    [num |-> row.no, title |-> row.title, authors |-> row.authors_fmt,
     source |-> row.source, year |-> row.year, quart |-> row.quartile,
     pct |-> row.percentile_2024, cites |-> row.cited_by,
     links |-> (IF ~row.url.na /\ row.url.v # <<>> THEN {"Scopus"} ELSE {})
               \cup (IF ~row.doi_link.na /\ row.doi_link.v # <<>> THEN {"DOI"} ELSE {})]

\* What render_tabs returns for the active tab.
render_view(fr, active_tab) ==
    LET disp == fr.store[fr.display]
        filt == fr.store[fr.filtered]
    IN CASE active_tab = "tab_table" ->
              [view |-> "table", count |-> Len(disp), data |-> columns(disp, TableColumns)]
         [] active_tab = "tab_cards" ->
              [view |-> "cards",
               data |-> List([i \in 1..Len(disp) |-> card(disp[i])])]
         [] active_tab = "tab_sources" ->
              [view |-> "sources", data |-> head(top_sources(filt), 20)]
         [] active_tab = "tab_authors" ->
              [view |-> "authors", data |-> head(top_authors(filt), 20)]
         [] OTHER -> [view |-> "No tab", data |-> <<>>]

ExportColumns ==
    {"no", "avtory", "title", "year", "source", "quartile", "percentile_2024",
     "cited_by", "doi_link", "url", "issn"}

\* The frames of export_data: export_df with its numbering and its
\* authors column (field avtory), cut to the export's columns.
select_columns(fr) ==
    LET e == new_frame(fr.store, columns(fr.store[fr.display], ExportColumns))
    IN [store |-> e.store, export_df |-> e.ref]

export_frames(df_global, w) ==
    select_columns(
      display_frames(new_frame(<<df_global>>, apply_filters(df_global, criteria(w))),
                     "avtory"))


\* ------------------------------------------------------------- the inputs

Empty == [kind |-> "empty", s |-> <<>>, t |-> 0]

Number(t) == [kind |-> "num", s |-> <<>>, t |-> t]

Cell(s) == [kind |-> "text", s |-> s, t |-> 0]

Q1 == <<"Q", "1">>

Q2 == <<"Q", "2">>

Q3 == <<"Q", "3">>

Q4 == <<"Q", "4">>

\* The sheet rows the model draws from: a two-author paper; a paper with
\* no title and no venue, a year typed as text and a negative, fractional
\* citation cell; a paper with no authors, no year and an unreadable
\* citation cell; a paper of the year 3 that ties with the first on
\* title, venue and citations.
RawRows ==
    {[authors_raw |-> Text(<<"A", ";", " ", "B">>), title |-> Text(<<"T">>),
      year |-> Number(20200), source |-> Text(<<"S">>), cited_by |-> Number(50),
      doi |-> Text(<<" ", "1">>), url |-> NaN, issn |-> NaN,
      quartile |-> Text(Q1), percentile_2024 |-> Number(800)],
     [authors_raw |-> Text(<<"B", ";">>), title |-> NaN,
      year |-> Cell(<<"2", "0", "2", "1">>), source |-> NaN, cited_by |-> Number(-25),
      doi |-> NaN, url |-> Text(<<"x">>), issn |-> NaN,
      quartile |-> Text(Q2), percentile_2024 |-> Number(405)],
     [authors_raw |-> NaN, title |-> Text(<<"b">>),
      year |-> Empty, source |-> Text(<<"V">>), cited_by |-> Cell(<<"x">>),
      doi |-> NaN, url |-> NaN, issn |-> NaN,
      quartile |-> Text(Q2), percentile_2024 |-> Number(400)],
     [authors_raw |-> Text(<<"A">>), title |-> Text(<<"T">>),
      year |-> Number(30), source |-> Text(<<"S">>), cited_by |-> Cell(<<"5">>),
      doi |-> NaN, url |-> NaN, issn |-> NaN,
      quartile |-> Text(Q1), percentile_2024 |-> Number(800)]}

Sheets == UNION {[1..n -> RawRows] : n \in 1..MaxRows}

TieOrders == {"input_order", "reversed"}

\* datetime.now().year
NowYear == 2026

\* min_year, max_year of the layout: the least and the greatest year of
\* df, or 2000 and this year when df has no year.
layout_years(frame) ==
    LET ys == {frame[i].year.v : i \in {j \in 1..Len(frame) : ~frame[j].year.na}}
    IN IF ys # {}
       THEN <<CHOOSE y \in ys : \A z \in ys : y <= z, CHOOSE y \in ys : \A z \in ys : z <= y>>
       ELSE <<2000, NowYear>>

\* source_options: the values of df["source"].fillna(dash)
source_options(frame) ==
    {IF frame[i].source.na THEN <<"-">> ELSE frame[i].source.v : i \in 1..Len(frame)}

\* author_options: the trimmed fragments of every authors_raw that is not NaN
author_options(frame) ==
    UNION {{strip(split(frame[i].authors_raw.v)[k]) :
               k \in 1..Len(split(frame[i].authors_raw.v))} :
           i \in {j \in 1..Len(frame) : ~frame[j].authors_raw.na}}

\* The widgets' values as app.layout sets them.
layout(frame) ==
    [search |-> NaN, preset_years |-> "all", year_range |-> layout_years(frame),
     source_filter |-> {}, author_filter |-> {},
     quartile_filter |-> {Q1, Q2, Q3, Q4}, percentile_range |-> <<0, 100>>,
     sort_by |-> "year_desc", main_tabs |-> "tab_table"]

NoCall == [stage |-> "none", c |-> criteria(layout(<<>>)), out |-> <<>>, out2 |-> <<>>]

Nothing == [view |-> "none", data |-> <<>>]

NoDownload == [filename |-> "none", content |-> <<>>]

\* The process has started: df = load_data() has run and the layout is
\* built; no callback has run yet.
Init ==
    /\ sheet \in Sheets
    /\ df = load_data(sheet)
    /\ argsort_ties \in TieOrders
    /\ ui = layout(df)
    /\ tab_content = Nothing
    /\ filtered = <<>>
    /\ download = NoDownload
    /\ event = "layout"
    /\ edits = 0
    /\ call = NoCall

\* ------------------------------------------------------------ the actions

\* render_tabs: runs when the page loads and at each click of apply_btn,
\* reading every other widget as State.
rendered(fr, trigger) ==
    /\ tab_content' = render_view(fr, ui.main_tabs)
    /\ filtered' = fr.store[fr.filtered]
    /\ df' = fr.store[1]
    /\ event' = trigger
    /\ UNCHANGED <<sheet, argsort_ties, ui, download, edits, call>>

render_tabs(trigger) == rendered(render_frames(df, ui), trigger)

PageLoad == event = "layout" /\ render_tabs("load")

ClickApply == event # "layout" /\ render_tabs("apply_btn")

\* export_data: runs at a click of either export button (never at page
\* load), reading the widgets as State.
exported(fr, trigger_id) ==
    /\ event # "layout"
    /\ download' = [filename |-> IF trigger_id = "export_csv" THEN "csv" ELSE "xlsx",
                    content |-> fr.store[fr.export_df]]
    /\ df' = fr.store[1]
    /\ event' = trigger_id
    /\ UNCHANGED <<sheet, argsort_ties, ui, tab_content, filtered, edits, call>>

export_data(trigger_id) == exported(export_frames(df, ui), trigger_id)

ClickExportCsv == export_data("export_csv")

ClickExportXlsx == export_data("export_xlsx")

\* A widget edit: the browser keeps the new value; no callback has the
\* widget as an Input, so none runs.
Edit(widget, value) ==
    /\ event # "layout"
    /\ edits < MaxEdits
    /\ ui[widget] # value
    /\ ui' = [ui EXCEPT ![widget] = value]
    /\ edits' = edits + 1
    /\ event' = "edit"
    /\ UNCHANGED <<sheet, df, argsort_ties, tab_content, filtered, download, call>>

SearchTexts == {Text(<<"b">>), Text(<<" ">>)}

TypeSearch == \E q \in SearchTexts : Edit("search", q)

PickPreset == \E p \in {"all", "last5", "last10"} : Edit("preset_years", p)

DragYearRange ==
    \E lo \in {layout_years(df)[1], layout_years(df)[2]} :
        Edit("year_range", <<lo, layout_years(df)[2]>>)

ToggleSource ==
    \E s \in source_options(df) :
        Edit("source_filter",
             IF s \in ui.source_filter THEN ui.source_filter \ {s}
             ELSE ui.source_filter \cup {s})

ToggleAuthor ==
    \E a \in author_options(df) :
        Edit("author_filter",
             IF a \in ui.author_filter THEN ui.author_filter \ {a}
             ELSE ui.author_filter \cup {a})

ToggleQuartile ==
    \E q \in {Q1, Q2, Q3, Q4} :
        Edit("quartile_filter",
             IF q \in ui.quartile_filter THEN ui.quartile_filter \ {q}
             ELSE ui.quartile_filter \cup {q})

DragPercentile == \E lo \in {0, 50} : Edit("percentile_range", <<lo, 100>>)

PickSort == \E m \in SortModes : Edit("sort_by", m)

PickTab ==
    \E t \in {"tab_table", "tab_cards", "tab_sources", "tab_authors"} :
        Edit("main_tabs", t)

Next ==
    \/ PageLoad
    \/ ClickApply
    \/ ClickExportCsv
    \/ ClickExportXlsx
    \/ TypeSearch
    \/ PickPreset
    \/ DragYearRange
    \/ ToggleSource
    \/ ToggleAuthor
    \/ ToggleQuartile
    \/ DragPercentile
    \/ PickSort
    \/ PickTab

Spec == Init /\ [][Next]_vars


\* ------------------------------------------- apply_filters called directly

\* The criteria a direct call draws from.
Criteria ==
    [search : {NaN} \cup SearchTexts,
     year_preset : {"all", "last5", "last10"},
     year_range : {<<2000, NowYear>>, <<2020, 2021>>},
     sources : {{}, {<<"S">>}},
     authors : {{}, {<<"B">>}},
     quartiles : {{}, {Q2}, {Q1, Q2, Q3, Q4}},
     percentile_range : {<<0, 100>>, <<50, 100>>},
     sort_by : SortModes]

\* apply_filters(df, ...) under some criteria.
Call ==
    /\ call.stage = "none"
    /\ \E c \in Criteria :
          call' = [stage |-> "returned", c |-> c, out |-> apply_filters(df, c), out2 |-> <<>>]
    /\ UNCHANGED <<sheet, df, argsort_ties, ui, tab_content, filtered, download, event, edits>>

\* apply_filters on what the first call returned, under the same criteria.
CallAgain ==
    /\ call.stage = "returned"
    /\ call' = [call EXCEPT !.stage = "again", !.out2 = apply_filters(call.out, call.c)]
    /\ UNCHANGED <<sheet, df, argsort_ties, ui, tab_content, filtered, download, event, edits>>

\* The explicit year range a preset is said to stand for: the last 5 (10)
\* years up to the greatest year of the frame.
preset_range(frame, preset) ==
    IF preset = "last5" THEN <<year_max(frame) - 4, year_max(frame)>>
    ELSE <<year_max(frame) - 9, year_max(frame)>>

\* After a call under a preset: apply_filters(df, ...) under preset "all"
\* and that explicit range, everything else the same.
CallRange ==
    /\ call.stage = "returned"
    /\ call.c.year_preset # "all"
    /\ \E i \in 1..Len(df) : ~df[i].year.na
    /\ call' = [call EXCEPT
                  !.stage = "range",
                  !.out2 = apply_filters(df,
                              [call.c EXCEPT !.year_preset = "all",
                                             !.year_range = preset_range(df, call.c.year_preset)])]
    /\ UNCHANGED <<sheet, df, argsort_ties, ui, tab_content, filtered, download, event, edits>>

NextFilter == Call \/ CallAgain \/ CallRange

SpecFilter == Init /\ [][NextFilter]_vars


\* ------------------------------------------- the page left at its defaults

\* More sheet rows, each with a year: one with no quartile, one with no
\* percentile, one whose percentile is not a number, one whose percentile
\* is above 100, one whose quartile is none of the four.
DefaultRows ==
    {[authors_raw |-> Text(<<"A">>), title |-> Text(<<"T">>),
      year |-> Number(20200), source |-> Text(<<"S">>), cited_by |-> Number(10),
      doi |-> NaN, url |-> NaN, issn |-> NaN,
      quartile |-> NaN, percentile_2024 |-> Number(800)],
     [authors_raw |-> Text(<<"B">>), title |-> Text(<<"T">>),
      year |-> Number(20210), source |-> Text(<<"S">>), cited_by |-> Number(10),
      doi |-> NaN, url |-> NaN, issn |-> NaN,
      quartile |-> Text(Q3), percentile_2024 |-> Empty],
     [authors_raw |-> Text(<<"B">>), title |-> Text(<<"T">>),
      year |-> Number(20210), source |-> Text(<<"V">>), cited_by |-> Number(10),
      doi |-> NaN, url |-> NaN, issn |-> NaN,
      quartile |-> Text(Q4), percentile_2024 |-> Cell(<<"x">>)],
     [authors_raw |-> Text(<<"A">>), title |-> Text(<<"b">>),
      year |-> Number(20200), source |-> Text(<<"V">>), cited_by |-> Number(10),
      doi |-> NaN, url |-> NaN, issn |-> NaN,
      quartile |-> Text(Q1), percentile_2024 |-> Number(1005)],
     [authors_raw |-> Text(<<"A">>), title |-> Text(<<"b">>),
      year |-> Number(20210), source |-> Text(<<"S">>), cited_by |-> Number(10),
      doi |-> NaN, url |-> NaN, issn |-> NaN,
      quartile |-> Text(<<"Q", "5">>), percentile_2024 |-> Number(0)]}

DefaultSheets == UNION {[1..n -> RawRows \cup DefaultRows] : n \in 1..MaxRows}

\* The process has started on one of these sheets.
InitDefaults ==
    /\ sheet \in DefaultSheets
    /\ df = load_data(sheet)
    /\ argsort_ties \in TieOrders
    /\ ui = layout(df)
    /\ tab_content = Nothing
    /\ filtered = <<>>
    /\ download = NoDownload
    /\ event = "layout"
    /\ edits = 0
    /\ call = NoCall

\* The page loads, and the user clicks the apply button and the export
\* buttons without touching a widget.
NextDefaults == PageLoad \/ ClickApply \/ ClickExportCsv \/ ClickExportXlsx

SpecDefaults == InitDefaults /\ [][NextDefaults]_vars


\* -------------------------------------------------------------- the claims

\* C1: apply_filters with an empty quartiles selection returns no record,
\* whatever the records and the other criteria.
C1_EmptyQuartilesExcludeAll ==
    (call.stage = "returned" /\ call.c.quartiles = {}) => call.out = <<>>

\* C2: apply_filters is idempotent: applied to its own result under the
\* same criteria it returns the same records in the same order.
C2_Idempotent == call.stage = "again" => call.out2 = call.out

\* C3: under preset last5 (last10) apply_filters returns what it returns
\* under preset "all" with the explicit range [maxYear-4, maxYear]
\* ([maxYear-9, maxYear]), maxYear the greatest year of the records.
C3_PresetIsRange == call.stage = "range" => call.out2 = call.out

\* Two cells are equal sort keys: both missing, or the same value.
SameKey(a, b) == (a.na /\ b.na) \/ (~a.na /\ ~b.na /\ a.v = b.v)

\* C8: the sort step is stable in every mode: two records with equal sort
\* keys (two missing keys included) come out in their input order.
C8_SortStable ==
    call.stage = "returned" =>
        \A i, j \in 1..Len(call.out) :
            (i < j /\ SameKey(cell(call.out[i], sort_column(call.c.sort_by)),
                              cell(call.out[j], sort_column(call.c.sort_by))))
            => call.out[i].idx < call.out[j].idx

\* The rows of a rendered table and of an exported file, column by column
\* (the authors column is authors_fmt in the one, avtory in the other).
TableRows(data) ==
    [i \in 1..Len(data) |->
        <<data[i].no, data[i].authors_fmt, data[i].title, data[i].year,
          data[i].source, data[i].quartile, data[i].percentile_2024,
          data[i].cited_by, data[i].doi_link, data[i].url>>]

ExportRows(content) ==
    [i \in 1..Len(content) |->
        <<content[i].no, content[i].avtory, content[i].title, content[i].year,
          content[i].source, content[i].quartile, content[i].percentile_2024,
          content[i].cited_by, content[i].doi_link, content[i].url>>]

\* C4: what an export click produces is, row by row and in order, the
\* table the page is showing.
C4_ExportIsShownTable ==
    (event \in {"export_csv", "export_xlsx"} /\ tab_content.view = "table")
        => ExportRows(download.content) = TableRows(tab_content.data)

\* The view each tab stands for.
ViewOf(tab) ==
    CASE tab = "tab_table" -> "table"
      [] tab = "tab_cards" -> "cards"
      [] tab = "tab_sources" -> "sources"
      [] tab = "tab_authors" -> "authors"

\* The content shows the records recs for the view of tab: the table and
\* the cards row by row, numbered from 1; the two rankings group by group.
Shows(content, recs, tab) ==
    /\ content.view = ViewOf(tab)
    /\ content.view \in {"table", "cards"} =>
          /\ Len(content.data) = Len(recs)
          /\ \A i \in 1..Len(recs) :
                /\ content.data[i].title = recs[i].title
                /\ content.data[i].year = recs[i].year
                /\ content.data[i].source = recs[i].source
                /\ IF content.view = "table"
                   THEN content.data[i].no = i
                        /\ content.data[i].cited_by = recs[i].cited_by
                        /\ content.data[i].authors_fmt
                              = replace_semicolons(astype_str(recs[i].authors_raw))
                   ELSE content.data[i].num = i
                        /\ content.data[i].cites = recs[i].cited_by
    /\ content.view = "sources" => content.data = head(top_sources(recs), 20)
    /\ content.view = "authors" => content.data = head(top_authors(recs), 20)

\* C5 as stated: after any event the content shown is apply_filters on
\* the full record store under the current criteria and the current tab.
C5_NeverStale ==
    event # "layout" => Shows(tab_content, apply_filters(load_data(sheet), criteria(ui)),
                              ui.main_tabs)

\* C5 as amended: right after the page load and after each click of the
\* apply button the content shown is apply_filters on the full record
\* store under the current criteria and the current tab.
C5_FreshAfterApply ==
    event \in {"load", "apply_btn"} =>
        Shows(tab_content, apply_filters(load_data(sheet), criteria(ui)), ui.main_tabs)

\* An apply click after an edit that made the filter drop a record.
C5_Witness ==
    /\ event = "apply_btn"
    /\ edits > 0
    /\ tab_content.view = "table"
    /\ Len(tab_content.data) >= 1
    /\ Len(tab_content.data) < Len(df)

\* C6: the per-venue publication counts of the "top sources" ranking add
\* up to the number of filtered rows.
C6_VenueCountsConserved ==
    tab_content.view = "sources" =>
        Sum([g \in 1..Len(top_sources(filtered)) |-> top_sources(filtered)[g].pub_count])
            = Len(filtered)

\* The non-empty fragments of a row's authors_raw split on ";" and trimmed;
\* an absent authors_raw has none.
Fragments(row) ==
    IF row.authors_raw.na THEN 0
    ELSE Cardinality({k \in 1..Len(split(row.authors_raw.v)) :
                         strip(split(row.authors_raw.v)[k]) # <<>>})

\* C7: the per-author publication counts of the "top authors" ranking add
\* up to the number of non-empty author fragments of the filtered rows.
C7_AuthorCountsConserved ==
    tab_content.view = "authors" =>
        Sum([g \in 1..Len(top_authors(filtered)) |-> top_authors(filtered)[g].pub_count])
            = Sum([i \in 1..Len(filtered) |-> Fragments(filtered[i])])

\* C9: the record store is what load_data made of the sheet, whatever
\* render_tabs and export_data have done since.
C9_RecordStoreImmutable == df = load_data(sheet)

\* Both callbacks have run on a store of several records, after an edit.
C9_Witness ==
    /\ event \in {"export_csv", "export_xlsx"}
    /\ edits > 0
    /\ tab_content.view = "table"
    /\ Len(tab_content.data) >= 1
    /\ Len(download.content) >= 1
    /\ Len(df) > 1

\* C10: every loaded record's cited_by is a non-negative integer.
C10_CitedByNonNegative == \A i \in 1..Len(df) : df[i].cited_by \in Nat

\* A record has a year, one of the four quartiles and a percentile in
\* [0, 100] (percentiles are in tenths).
PassesDefaults(r) ==
    /\ ~r.year.na
    /\ ~r.quartile.na /\ r.quartile.v \in {Q1, Q2, Q3, Q4}
    /\ ~r.percentile_2024.na /\ r.percentile_2024.v >= 0 /\ r.percentile_2024.v <= 1000

\* C11: with every widget at its default, apply_filters returns exactly
\* the records of df that have a year, one of the four quartiles and a
\* percentile in [0, 100], each once; a record with no year, no quartile or
\* no percentile is left out.
C11_DefaultsNotIdentity ==
    (event \in {"load", "apply_btn"} /\ ui = layout(df)) =>
        /\ \A i \in 1..Len(filtered) :
              /\ filtered[i].idx + 1 \in 1..Len(df)
              /\ filtered[i] = df[filtered[i].idx + 1]
        /\ {filtered[i].idx + 1 : i \in 1..Len(filtered)}
              = {j \in 1..Len(df) : PassesDefaults(df[j])}
        /\ Len(filtered) = Cardinality({j \in 1..Len(df) : PassesDefaults(df[j])})

\* The page has loaded on two records with a year, one of them with no
\* quartile or no percentile: the defaults show the other one only.
C11_Witness ==
    /\ event = "load"
    /\ ui = layout(df)
    /\ Len(df) = 2
    /\ \A j \in 1..2 : ~df[j].year.na
    /\ \E j \in 1..2 : df[j].quartile.na \/ df[j].percentile_2024.na
    /\ Len(filtered) = 1
    /\ filtered # df

=============================================================================
